---------------------------- MODULE Spec2Model ----------------------------
(***************************************************************************)
(* A model of src/mobius_strip.py: the MobiusStrip class (constructor,     *)
(* _compute_points, surface_area, edge_length) and the numpy / scipy       *)
(* array operations it calls.                                              *)
(*                                                                         *)
(* Numbers.  Python floats are modelled as fixed-point numbers: the        *)
(* integer x stands for the real x / SCALE, and every multiplication,      *)
(* division and square root rounds to the nearest unit.  SCALE = 13560 is  *)
(* chosen so that 2*pi rounds to 85200 = 120 * 710 units: the angles       *)
(* linspace(0, 2*pi, n) produces, and their halves, are then whole         *)
(* multiples of Tick (3 degrees) for every n - 1 dividing 60, and the trig *)
(* functions are tabulated on those angles.  IEEE-754 rounding error (of   *)
(* the order of 1e-16) is not modelled.                                    *)
(*                                                                         *)
(* Arrays.  A 1-D array is a sequence, a 2-D array a sequence of rows;     *)
(* Python index k is index k + 1 here.  Arrays live in a heap and the      *)
(* fields of an instance hold heap addresses, as Python attributes hold    *)
(* references.                                                             *)
(***************************************************************************)
EXTENDS Integers, Sequences, FiniteSets, TLC

VARIABLES heap, objs, ret

vars == <<heap, objs, ret>>

(***************************** bounds *************************************)
\* the largest grid resolution n a caller passes
MaxN == 4

\* the strips the caller holds: the first and the second instance it builds
Strips == {1, 2}

(************************** fixed-point numbers ***************************)
SCALE == 120 * 113
Tick == 2 * 355
Pi == 60 * Tick
TwoPi == 2 * Pi

\* a / b rounded to the nearest integer, for b > 0
RndPos(a, b) == IF 2 * (a % b) >= b THEN (a \div b) + 1 ELSE a \div b

\* a / b rounded to the nearest integer, for b # 0
Rnd(a, b) == IF b > 0 THEN RndPos(a, b) ELSE RndPos(-a, -b)

Mul(a, b) == Rnd(a * b, SCALE)
Div(a, b) == Rnd(a * SCALE, b)
Half(a) == Rnd(a, 2)
Sq(a) == Mul(a, a)

RECURSIVE isqrt(_, _, _)
isqrt(x, lo, hi) ==
    IF lo >= hi THEN lo
    ELSE LET mid == (lo + hi + 1) \div 2
         IN  IF mid * mid <= x THEN isqrt(x, mid, hi) ELSE isqrt(x, lo, mid - 1)

\* np.sqrt on a non-negative fixed-point number, rounded to nearest
sqrt(a) == LET x == a * SCALE
               r == isqrt(x, 0, 46340)
           IN  IF x - r * r > r THEN r + 1 ELSE r

\* SCALE * cos(k * 3 degrees), k = 0 .. 30
CosTab == <<13560, 13541, 13486, 13393, 13264, 13098, 12896, 12659, 12388,
            12082, 11743, 11372, 10970, 10538, 10077, 9588, 9073, 8534, 7970,
            7385, 6780, 6156, 5515, 4859, 4190, 3510, 2819, 2121, 1417, 710, 0>>

\* np.cos: the angle is taken to the nearest tick and reduced to a quarter turn
cos(x) == LET k == Rnd(x, Tick) % 120
          IN  IF k <= 30 THEN CosTab[k + 1]
              ELSE IF k <= 60 THEN -CosTab[60 - k + 1]
              ELSE IF k <= 90 THEN -CosTab[k - 60 + 1]
              ELSE CosTab[120 - k + 1]

\* np.sin
sin(x) == cos(x - Pi \div 2)

(****************************** numpy *************************************)
\* an ndarray holds its elements: the sequence f with every element computed
ndarray(f) == SubSeq(f, 1, Len(f))

RECURSIVE sum(_)
sum(s) == IF s = <<>> THEN 0 ELSE Head(s) + sum(Tail(s))

\* np.linspace(start, stop, num), endpoint = True
linspace(start, stop, num) ==
    IF num = 1 THEN <<start>>
    ELSE LET step == Rnd(stop - start, num - 1)
         IN  ndarray([k \in 1..num |->
                         IF k = num THEN stop ELSE (k - 1) * step + start])

\* meshgrid with indexing = 'ij': both of shape (len(x), len(y))
meshgrid_ij(x, y) ==
    << ndarray([i \in 1..Len(x) |-> ndarray([j \in 1..Len(y) |-> x[i]])]),
       ndarray([i \in 1..Len(x) |-> ndarray([j \in 1..Len(y) |-> y[j]])]) >>

\* np.meshgrid(x, y), indexing = 'xy': <<XX, YY>>, both of shape (len(y), len(x))
meshgrid(x, y) ==
    << ndarray([i \in 1..Len(y) |-> ndarray([j \in 1..Len(x) |-> x[j]])]),
       ndarray([i \in 1..Len(y) |-> ndarray([j \in 1..Len(x) |-> y[i]])]) >>

\* np.diff of a 1-D array
diff(a) == ndarray([k \in 1..(Len(a) - 1) |-> a[k + 1] - a[k]])

\* np.gradient(A, axis = 1) with unit spacing: along the columns of each row
gradient1(A) ==
    ndarray([i \in 1..Len(A) |->
        LET m == Len(A[i])
        IN  ndarray([j \in 1..m |->
                IF j = 1 THEN A[i][2] - A[i][1]
                ELSE IF j = m THEN A[i][m] - A[i][m - 1]
                ELSE Half(A[i][j + 1] - A[i][j - 1])])])

\* np.gradient(A, axis = 0) with unit spacing: along the rows of each column
gradient0(A) ==
    LET n == Len(A)
    IN  ndarray([i \in 1..n |->
            ndarray([j \in 1..Len(A[i]) |->
                IF i = 1 THEN A[2][j] - A[1][j]
                ELSE IF i = n THEN A[n][j] - A[n - 1][j]
                ELSE Half(A[i + 1][j] - A[i - 1][j])])])

\* elementwise A / d
DivBy(A, d) ==
    ndarray([i \in 1..Len(A) |-> ndarray([j \in 1..Len(A[i]) |-> Div(A[i][j], d)])])

(************************ scipy.integrate.simps ***************************)
Min(a, b) == IF a < b THEN a ELSE b
Max(a, b) == IF a > b THEN a ELSE b

\* the number of elements of the Python slice a[start:stop:2] of an array of
\* length len (start >= 0; a negative stop counts from the end)
SliceLen(start, stop, len) ==
    LET hi == IF stop < 0 THEN Max(stop + len, 0) ELSE Min(stop, len)
    IN  IF hi <= start THEN 0 ELSE (hi - start + 1) \div 2

\* scipy's _basic_simpson(y, start, stop, x, dx, axis) for a 1-D y with sample
\* points x: Simpson's rule over the pairs of intervals that begin at the
\* 0-based indices start, start + 2, ... below stop.  The slices of y and of
\* h = diff(x) are combined elementwise; when one of them is empty the
\* product is empty and the sum is 0.
basic_simpson(y, start, stop, x) ==
    LET h == diff(x)
        cnt == Min(Min(SliceLen(start, stop, Len(y)),
                       Min(SliceLen(start + 1, stop + 1, Len(y)),
                           SliceLen(start + 2, stop + 2, Len(y)))),
                   Min(SliceLen(start, stop, Len(h)),
                       SliceLen(start + 1, stop + 1, Len(h))))
        term(t) ==
            LET k == start + 2 * t + 1
                h0 == h[k]
                h1 == h[k + 1]
                hsum == h0 + h1
                hprod == Mul(h0, h1)
                h0divh1 == Div(h0, h1)
            IN  Mul(Rnd(hsum, 6),
                    Mul(y[k], 2 * SCALE - Div(SCALE, h0divh1))
                    + Mul(y[k + 1], Mul(hsum, Div(hsum, hprod)))
                    + Mul(y[k + 2], 2 * SCALE - h0divh1))
    IN  sum([t \in 1..cnt |-> term(t - 1)])

\* the trapezoidal rule over all of y: np.trapz(y, x)
trapz(y, x) ==
    sum([k \in 1..(Len(y) - 1) |-> Mul(Half(x[k + 1] - x[k]), y[k + 1] + y[k])])

\* an even sample count rejected instead of handled
simps_strict(y, x) ==
    IF Len(y) % 2 = 0 THEN [st |-> "raise", v |-> 0]
    ELSE [st |-> "value", v |-> basic_simpson(y, 0, Len(y) - 2, x)]

\* scipy.integrate.simps(y, x) for a 1-D y, even = 'avg': [st, v], st = "value".
\* With an even number of samples N it averages (Simpson on the first N - 1
\* samples + trapezoid on the last interval) and (trapezoid on the first
\* interval + Simpson on the last N - 1 samples).
simps(y, x) ==
    LET N == Len(y)
    IN  IF N % 2 = 0
        THEN LET last_dx == x[N] - x[N - 1]
                 first_dx == x[2] - x[1]
                 val == Mul(Half(last_dx), y[N] + y[N - 1])
                        + Mul(Half(first_dx), y[2] + y[1])
                 result == basic_simpson(y, 0, N - 3, x)
                           + basic_simpson(y, 1, N - 2, x)
             IN  [st |-> "value", v |-> Half(result) + Half(val)]
        ELSE [st |-> "value", v |-> basic_simpson(y, 0, N - 2, x)]

\* column j of a 2-D array
Col(A, j) == ndarray([i \in 1..Len(A) |-> A[i][j]])

(******************************* the heap *********************************)
\* arrays kept in one place shared by every instance (a class-level buffer)
alloc_cached(h) == 1

\* the address of a newly created array: numpy returns a fresh array from
\* linspace, meshgrid (copy = True) and from every arithmetic expression
alloc(h) == Len(h) + 1

\* h with the array val stored at address a
store(h, a, val) == IF a = Len(h) + 1 THEN Append(h, val) ELSE [h EXCEPT ![a] = val]

None == [st |-> "none", v |-> 0]
Value(x) == [st |-> "value", v |-> x]
Raise == [st |-> "raise", v |-> 0]

(**************************** class MobiusStrip ***************************)
\* the arguments a caller passes to MobiusStrip(R, w, n): valid ones
\* (R > 0, w > 0, n >= 2) and degenerate ones (n = 1, R = 0, w = -1)
RValues == {SCALE}
WValues == {SCALE \div 2, SCALE}
Args == (RValues \X WValues \X (2..MaxN))
        \cup {<<SCALE, SCALE \div 2, 1>>, <<0, SCALE \div 2, 3>>, <<SCALE, -SCALE, 3>>}

\* _compute_points(self): <<X, Y, Z>> from self.U, self.V and self.R
compute_points(h, self) ==
    LET U == h[self.U]
        V == h[self.V]
        rad(i, j) == self.R + Mul(V[i][j], cos(Half(U[i][j])))
        elementwise(f(_, _)) ==
            ndarray([i \in 1..Len(U) |-> ndarray([j \in 1..Len(U[i]) |-> f(i, j)])])
        x(i, j) == Mul(rad(i, j), cos(U[i][j]))
        y(i, j) == Mul(rad(i, j), sin(U[i][j]))
        z(i, j) == Mul(V[i][j], sin(Half(U[i][j])))
    IN  <<elementwise(x), elementwise(y), elementwise(z)>>

\* MobiusStrip(R, w, n): __init__ creates the instance, its grid and its points
MobiusStrip(R, w, n) ==
    /\ Len(objs) < Cardinality(Strips)
    /\ LET u == linspace(0, TwoPi, n)
           v == linspace(Half(-w), Half(w), n)
           UV == meshgrid(u, v)
           a == alloc(heap)
           h1 == store(heap, a, u)
           h2 == store(h1, a + 1, v)
           h3 == store(h2, a + 2, UV[1])
           h4 == store(h3, a + 3, UV[2])
           self0 == [R |-> R, w |-> w, n |-> n, u |-> a, v |-> a + 1,
                     U |-> a + 2, V |-> a + 3]
           XYZ == compute_points(h4, self0)
           h5 == store(h4, a + 4, XYZ[1])
           h6 == store(h5, a + 5, XYZ[2])
           h7 == store(h6, a + 6, XYZ[3])
       IN  /\ heap' = h7
           /\ objs' = Append(objs, [R |-> R, w |-> w, n |-> n, u |-> a, v |-> a + 1,
                                    U |-> a + 2, V |-> a + 3,
                                    X |-> a + 4, Y |-> a + 5, Z |-> a + 6])
           /\ ret' = Append(ret, [area |-> None, len |-> None])

\* the cross product taken of the u-tangent with itself (Xu, Yu, Zu written
\* where Xv, Yv, Zv belong)
area_element_same_tangent(X, Y, Z, du, dv) ==
    LET Xu == DivBy(gradient1(X), du)
        Yu == DivBy(gradient1(Y), du)
        Zu == DivBy(gradient1(Z), du)
    IN  ndarray([i \in 1..Len(X) |-> ndarray([j \in 1..Len(X[i]) |->
            LET Nx == Mul(Yu[i][j], Zu[i][j]) - Mul(Zu[i][j], Yu[i][j])
                Ny == Mul(Zu[i][j], Xu[i][j]) - Mul(Xu[i][j], Zu[i][j])
                Nz == Mul(Xu[i][j], Yu[i][j]) - Mul(Yu[i][j], Xu[i][j])
            IN  sqrt(Sq(Nx) + Sq(Ny) + Sq(Nz))])])

\* the area element dA of surface_area: the magnitude of the cross product of
\* the tangent vectors, per grid cell
area_element(X, Y, Z, du, dv) ==
    LET Xu == DivBy(gradient1(X), du)
        Yu == DivBy(gradient1(Y), du)
        Zu == DivBy(gradient1(Z), du)
        Xv == DivBy(gradient0(X), dv)
        Yv == DivBy(gradient0(Y), dv)
        Zv == DivBy(gradient0(Z), dv)
    IN  ndarray([i \in 1..Len(X) |-> ndarray([j \in 1..Len(X[i]) |->
            LET Nx == Mul(Yu[i][j], Zv[i][j]) - Mul(Zu[i][j], Yv[i][j])
                Ny == Mul(Zu[i][j], Xv[i][j]) - Mul(Xu[i][j], Zv[i][j])
                Nz == Mul(Xu[i][j], Yv[i][j]) - Mul(Yu[i][j], Xv[i][j])
            IN  sqrt(Sq(Nx) + Sq(Ny) + Sq(Nz))])])

\* what surface_area(self) returns: an IndexError from self.u[1] when the grid
\* has a single sample, otherwise simps over v (axis 0), then simps over u
area_result(h, self) ==
    LET u == h[self.u]
        v == h[self.v]
    IN  IF Len(u) < 2 \/ Len(v) < 2 THEN Raise
        ELSE LET dA == area_element(h[self.X], h[self.Y], h[self.Z],
                                    u[2] - u[1], v[2] - v[1])
                 area_v == ndarray([j \in 1..Len(dA[1]) |-> simps(Col(dA, j), v)])
             IN  IF \E j \in 1..Len(area_v) : area_v[j].st = "raise" THEN Raise
                 ELSE simps(ndarray([j \in 1..Len(area_v) |-> area_v[j].v]), u)

\* surface_area keeping its total on the instance and adding to it
surface_area_accum(i) ==
    /\ i \in DOMAIN objs
    /\ LET r == area_result(heap, objs[i])
       IN  ret' = [ret EXCEPT ![i].area =
                      IF r.st = "value" THEN Value(ret[i].area.v + r.v) ELSE r]
    /\ UNCHANGED <<heap, objs>>

\* a call of objs[i].surface_area()
surface_area(i) ==
    /\ i \in DOMAIN objs
    /\ ret' = [ret EXCEPT ![i].area = area_result(heap, objs[i])]
    /\ UNCHANGED <<heap, objs>>

\* a Python index k into an array of length len, as a 1-based index
PyIndex(k, len) == IF k < 0 THEN len + k + 1 ELSE k + 1

\* the rows for v_idx in [0, 1]
edge_rows_interior(X) == <<PyIndex(0, Len(X)), PyIndex(1, Len(X))>>

\* the rows edge_length reads: for v_idx in [0, -1]
edge_rows(X) == <<PyIndex(0, Len(X)), PyIndex(-1, Len(X))>>

\* the row as a closed polyline: with the segment from the last point back
\* to the first
row_length_closed(X, Y, Z, r) ==
    LET dx == diff(X[r] \o <<X[r][1]>>)
        dy == diff(Y[r] \o <<Y[r][1]>>)
        dz == diff(Z[r] \o <<Z[r][1]>>)
    IN  sum([k \in 1..Len(dx) |-> sqrt(Sq(dx[k]) + Sq(dy[k]) + Sq(dz[k]))])

\* the length edge_length adds for the row r: sum(sqrt(dx**2 + dy**2 + dz**2))
row_length(X, Y, Z, r) ==
    LET dx == diff(X[r])
        dy == diff(Y[r])
        dz == diff(Z[r])
    IN  sum([k \in 1..Len(dx) |-> sqrt(Sq(dx[k]) + Sq(dy[k]) + Sq(dz[k]))])

\* what edge_length(self) returns
length_result(h, self) ==
    LET X == h[self.X]
        rows == edge_rows(X)
    IN  Value(sum([k \in 1..Len(rows) |->
                      row_length(X, h[self.Y], h[self.Z], rows[k])]))

\* edge_length shifting each row it reads in place (x_edge -= x_edge[0] on
\* the view self.X[v_idx, :])
edge_length_inplace(i) ==
    /\ i \in DOMAIN objs
    /\ ret' = [ret EXCEPT ![i].len = length_result(heap, objs[i])]
    /\ LET X == heap[objs[i].X]
           rows == edge_rows(X)
       IN  heap' = [heap EXCEPT ![objs[i].X] =
                       [r \in 1..Len(X) |->
                           IF r \in {rows[1], rows[2]}
                           THEN [j \in 1..Len(X[r]) |-> X[r][j] - X[r][1]]
                           ELSE X[r]]]
    /\ UNCHANGED objs

\* a call of objs[i].edge_length()
edge_length(i) ==
    /\ i \in DOMAIN objs
    /\ ret' = [ret EXCEPT ![i].len = length_result(heap, objs[i])]
    /\ UNCHANGED <<heap, objs>>

\* strip.R = val, strip.w = val or strip.n = val by the caller: R, w and n
\* are plain instance attributes, and assigning to one runs no code of the class
setattr(i, name, val) ==
    /\ i \in DOMAIN objs
    /\ name \in {"R", "w", "n"}
    /\ objs' = [objs EXCEPT ![i][name] = val]
    /\ UNCHANGED <<heap, ret>>

(**************************** specification *******************************)
Init ==
    /\ heap = <<>>
    /\ objs = <<>>
    /\ ret = <<>>

Next ==
    \/ \E a \in Args : MobiusStrip(a[1], a[2], a[3])
    \/ \E i \in Strips : surface_area(i)
    \/ \E i \in Strips : edge_length(i)

Spec == Init /\ [][Next]_vars

\* a caller that builds one strip and then also assigns to its attributes
NextMut ==
    \/ (objs = <<>> /\ \E a \in Args : MobiusStrip(a[1], a[2], a[3]))
    \/ \E r \in RValues \cup {2 * SCALE} : setattr(1, "R", r)
    \/ \E w \in WValues : setattr(1, "w", w)
    \/ \E n \in 2..MaxN : setattr(1, "n", n)
    \/ surface_area(1)
    \/ edge_length(1)

SpecMut == Init /\ [][NextMut]_vars

(******************************* claims ***********************************)
Built == DOMAIN objs
Valid(o) == o.R > 0 /\ o.w > 0 /\ o.n >= 2
AddrOf(o) == {o.u, o.v, o.U, o.V, o.X, o.Y, o.Z}

\* C1: a MobiusStrip with n < 2, R <= 0 or w <= 0 is rejected with
\* InvalidConfig before any grid or point is computed, so no instance with
\* such a configuration is ever constructed.
C1_InvalidConfigNeverConstructed ==
    \A i \in Built : Valid(objs[i])

\* a step that constructs nothing (a query) changes no instance and no array,
\* and repeats the value an earlier call of the same query returned
C2_Step ==
    Len(objs') = Len(objs) =>
        /\ objs' = objs
        /\ heap' = heap
        /\ \A i \in Built :
              /\ ret[i].area.st # "none" => ret'[i].area = ret[i].area
              /\ ret[i].len.st # "none" => ret'[i].len = ret[i].len

\* C2: surface_area() and edge_length() are side-effect-free: a call leaves
\* R, w, n and the arrays u, v, U, V, X, Y, Z as they were, and a repeated
\* call returns what the earlier call of the same query returned.
C2_QueriesSideEffectFree == [][C2_Step]_vars

C2_Witness ==
    \E i \in Built : /\ Valid(objs[i])
                     /\ ret[i].area.st = "value"
                     /\ ret[i].len.st = "value"

\* C3: in every reachable state, also after the caller has changed R, w or
\* n, the grid is the one of the current w and n, and X, Y, Z are the
\* parametric formulas applied to the current U, V and R.
C3_PointsFollowConfig ==
    \A i \in Built :
        LET o == objs[i]
        IN  /\ heap[o.u] = linspace(0, TwoPi, o.n)
            /\ heap[o.v] = linspace(Half(-o.w), Half(o.w), o.n)
            /\ <<heap[o.U], heap[o.V]>> = meshgrid(heap[o.u], heap[o.v])
            /\ <<heap[o.X], heap[o.Y], heap[o.Z]>> = compute_points(heap, o)

\* C4: for n >= 2 the rows edge_length() reads are grid row 0 and grid row
\* n - 1, the rows on which v is -w/2 and +w/2; no interior row contributes.
C4_BoundaryRows ==
    \A i \in Built :
        LET o == objs[i]
            V == heap[o.V]
            rows == edge_rows(heap[o.X])
        IN  o.n >= 2 =>
              /\ rows = <<1, o.n>>
              /\ \A j \in 1..o.n : 2 * V[rows[1]][j] = -o.w /\ 2 * V[rows[2]][j] = o.w
              /\ ret[i].len.st = "value" =>
                    ret[i].len.v = row_length(heap[o.X], heap[o.Y], heap[o.Z], 1)
                                   + row_length(heap[o.X], heap[o.Y], heap[o.Z], o.n)

C4_Witness ==
    \E i \in Built : objs[i].n = 4 /\ Valid(objs[i]) /\ ret[i].len.st = "value"

C6_Trapezoid(o) ==
    LET u == heap[o.u]
        v == heap[o.v]
        dA == area_element(heap[o.X], heap[o.Y], heap[o.Z], u[2] - u[1], v[2] - v[1])
    IN  trapz([j \in 1..Len(dA[1]) |-> trapz(Col(dA, j), v)], u)

\* C6: surface_area() never fails for n >= 2; on the degenerate grid n = 2
\* both integrations (over v, then over u) are the trapezoidal rule: the
\* result is the trapezoid value, and simps over the two samples of v or of
\* u is the trapezoid whatever it integrates (here the columns and rows of X).
C6_AreaTotal ==
    \A i \in Built :
        LET o == objs[i]
            X == heap[o.X]
        IN  o.n >= 2 =>
              /\ ret[i].area.st # "raise"
              /\ area_result(heap, o).st = "value"
              /\ (o.n = 2 /\ ret[i].area.st = "value") =>
                     ret[i].area.v = C6_Trapezoid(o)
              /\ o.n = 2 =>
                     \A k \in 1..2 :
                        /\ simps(Col(X, k), heap[o.v]) = Value(trapz(Col(X, k), heap[o.v]))
                        /\ simps(X[k], heap[o.u]) = Value(trapz(X[k], heap[o.u]))

C6_Witness ==
    \E i \in Built : objs[i].n = 2 /\ Valid(objs[i]) /\ ret[i].area.st = "value"

\* C7: two instances constructed with the same (R, w, n) have the same X, Y
\* and Z and return the same surface_area() and edge_length(), however many
\* queries were made on either and in whichever order.
C7_Deterministic ==
    \A i, j \in Built :
        LET a == objs[i]
            b == objs[j]
        IN  (a.R = b.R /\ a.w = b.w /\ a.n = b.n) =>
              /\ heap[a.X] = heap[b.X]
              /\ heap[a.Y] = heap[b.Y]
              /\ heap[a.Z] = heap[b.Z]
              /\ (ret[i].area.st # "none" /\ ret[j].area.st # "none") =>
                     ret[i].area = ret[j].area
              /\ (ret[i].len.st # "none" /\ ret[j].len.st # "none") =>
                     ret[i].len = ret[j].len

C7_Witness ==
    \E i, j \in Built :
        /\ i # j
        /\ Valid(objs[i])
        /\ objs[i].R = objs[j].R /\ objs[i].w = objs[j].w /\ objs[i].n = objs[j].n
        /\ objs[i].n >= 3
        /\ ret[i].area.st = "value" /\ ret[j].area.st = "value"
        /\ ret[i].len.st = "value" /\ ret[j].len.st = "value"

C9_OwnArrays ==
    /\ \A i \in Built : Cardinality(AddrOf(objs[i])) = 7 /\ AddrOf(objs[i]) \subseteq DOMAIN heap
    /\ \A i, j \in Built : i # j => AddrOf(objs[i]) \cap AddrOf(objs[j]) = {}

\* a step changes no existing instance and none of its arrays; a construction
\* changes no existing result and a query the results of one instance only
C9_Step ==
    \A i \in Built :
        /\ objs'[i] = objs[i]
        /\ \A a \in AddrOf(objs[i]) : heap'[a] = heap[a]
        /\ Len(objs') > Len(objs) => ret'[i] = ret[i]
        /\ ret'[i] # ret[i] => \A j \in Built \ {i} : ret'[j] = ret[j]

\* C9: instances never alias: each owns its own u, v, U, V, X, Y, Z, and
\* constructing or querying one instance changes no other instance's grid,
\* points or query results; a construction with another n makes new arrays
\* and leaves the existing ones as they are.
C9_NoAliasing == []C9_OwnArrays /\ [][C9_Step]_vars

C9_Witness ==
    \E i, j \in Built :
        /\ i # j
        /\ objs[i].n # objs[j].n
        /\ ret[i].area.st = "value" /\ ret[j].len.st = "value"

\* the Euclidean length of the segment from column j to column j + 1 of row r
C10_Segment(o, r, j) ==
    sqrt(Sq(heap[o.X][r][j + 1] - heap[o.X][r][j])
         + Sq(heap[o.Y][r][j + 1] - heap[o.Y][r][j])
         + Sq(heap[o.Z][r][j + 1] - heap[o.Z][r][j]))

\* C10: edge_length() treats each of its two rows as an open polyline: per
\* row it sums the n - 1 lengths of the segments from column j to column
\* j + 1, j = 0 .. n - 2, with no segment from the last column back to the
\* first and none between the rows: 2 * (n - 1) segment lengths in all.
C10_OpenPolylines ==
    \A i \in Built :
        LET o == objs[i]
        IN  (o.n >= 2 /\ ret[i].len.st = "value") =>
              /\ Len(diff(heap[o.X][1])) = o.n - 1
              /\ Len(diff(heap[o.X][o.n])) = o.n - 1
              /\ ret[i].len.v = sum([j \in 1..(o.n - 1) |-> C10_Segment(o, 1, j)])
                                + sum([j \in 1..(o.n - 1) |-> C10_Segment(o, o.n, j)])

C10_Witness ==
    \E i \in Built : Valid(objs[i]) /\ objs[i].n >= 3 /\ ret[i].len.st = "value"

=============================================================================
